---- MODULE Spec2Model ----
(***************************************************************************)
(* A model of transitled's main.py: the 511 API client (key rotation and   *)
(* retry with backoff), the two polling threads with their per-stop        *)
(* workers, the lock-protected prediction and alert stores, and the render *)
(* loop with its scroll and train animation.                               *)
(*                                                                         *)
(* Strings are sequences of one-character strings, so that len(text) is    *)
(* Len and " / ".join / ",".join are computed.  time() is a sample of a    *)
(* non-decreasing clock: every step that calls time() picks a value that   *)
(* is at least the last one read.                                          *)
(***************************************************************************)
EXTENDS Integers, Sequences, FiniteSets, TLC

\* ------------------------------------------------------------- bounds
\* Largest API key pool drawn for the configuration.
MaxKeys == 2
\* Cycles each polling loop runs, and frames the render loop draws.
MaxCycles == 1
MaxFrames == 1
\* Transport failures the network produces in the retry specification.
MaxOutages == 3
\* Seconds the clock may advance in the threaded specifications.
MaxNow == 0
\* Frames of the render-only scroll specification.
MaxTicks == 210
\* The clock reading at startup (seconds since the epoch).
Epoch == 1000
\* Seconds the clock may advance in the alert filter specification.
AlertHorizon == 5
\* frames drawn while the alerts loop runs further cycles
MaxBoardFrames == 75

\* -------------------------------------------------- program constants
Cols == 64
FontWidth == 6
TrainLength == 5
TrainSlowdownFactor == 10
TrainStaleSecs == 120
TrainShakePos == 34
TrainShakeAlt == 35
TrainWrapBase == 65
FreshSecs == 2
DataTextX == 15
PredictionsBackoff == 10
AlertsBackoff == 20

\* ---------------------------------------------------------------- state
VARIABLES
  api_key,                      \* SF511API.api_key: the key pool
  api_key_counter,              \* SF511API.api_key_counter
  api_key_lock,                 \* SF511API.api_key_lock: holder or "free"
  stops,                        \* TransitDisplayDriver.stops
  prediction_times,             \* line -> expected arrival times
  prediction_time_locks,        \* line -> holder or "free"
  prediction_data_last_updated,
  alerts,                       \* line -> alert strings
  alert_data_last_updated,
  alert_data_lock,              \* holder or "free"
  now,                          \* the last clock reading
  pc,                           \* thread -> position
  key,                          \* fetch thread -> api_key of its request
  backoff,                      \* fetch thread -> backoff of fetch_internal
  sleeps,                       \* fetch thread -> sleeps of the current call
  strs,                         \* render locals: the four strings of a frame
  seen,                         \* render: the sequences it read this frame
  top_text_scroll_offset,
  bottom_text_scroll_offset,
  train_pos,
  train_color,
  train_slowdown_counter,
  canvas,                       \* what the last frame drew
  cycle,                        \* polling loop -> cycles started
  stamps,                       \* polling loop -> freshness stamps written
  frames,                       \* frames drawn
  key_log,                      \* keys returned by next_api_key, in order
  written,                      \* line -> sequences stored by a write
  outages,                      \* transport failures the network may still produce
  limits                        \* what bounds a run: cycles, frames, clock readings

keyVars    == <<api_key, api_key_counter, api_key_lock, key_log>>
fetchVars  == <<key, backoff, sleeps, outages>>
predVars   == <<prediction_times, prediction_time_locks, written>>
alertVars  == <<alerts, alert_data_last_updated, alert_data_lock>>
readVars   == <<strs, seen>>
animVars   == <<top_text_scroll_offset, bottom_text_scroll_offset, train_pos,
                train_color, train_slowdown_counter, canvas, frames>>
loopVars   == <<cycle, stamps>>
vars == <<keyVars, fetchVars, predVars, alertVars, readVars,
          animVars, loopVars, stops, prediction_data_last_updated, now, pc, limits>>

\* ------------------------------------------------------------- strings
NA == <<"N", "/", "A">>
Empty == << >>
Digit == <<"0", "1", "2", "3", "4", "5", "6", "7", "8", "9">>

RECURSIVE IntToStr(_)
\* str(n) of a non-negative int
IntToStr(n) ==
  IF n < 10 THEN <<Digit[n + 1]>>
  ELSE IntToStr(n \div 10) \o <<Digit[(n % 10) + 1]>>

RECURSIVE Join(_, _)
\* sep.join(parts)
Join(sep, parts) ==
  IF Len(parts) = 0 THEN Empty
  ELSE IF Len(parts) = 1 THEN parts[1]
  ELSE parts[1] \o sep \o Join(sep, Tail(parts))

\* `a in b` on strings
Contains(a, b) ==
  \E i \in 0..(Len(b) - Len(a)) : SubSeq(b, i + 1, i + Len(a)) = a

Max(a, b) == IF a >= b THEN a ELSE b

RECURSIVE Pow2(_)
Pow2(n) == IF n = 0 THEN 1 ELSE 2 * Pow2(n - 1)

\* ------------------------------------------------------- configuration
KeyNames == <<"k1", "k2", "k3", "k4">>
Pool(n) == SubSeq(KeyNames, 1, n)
\* config.api_key: the empty pool, or a pool of MaxKeys keys.
KeyPools == {Pool(0), Pool(MaxKeys)}

StopN == [line |-> "N", stop_code |-> "s1"]
StopJ == [line |-> "J", stop_code |-> "s2"]
\* config.stops: the two rows of the layout, or a single stop.
StopLists == {<<StopN, StopJ>>, <<StopN>>}
LinesOf(ss) == {ss[i].line : i \in 1..Len(ss)}
\* config.ignored_alert_text
ignored_alert_text == << <<"x">> >>

Workers == <<"w1", "w2">>
Fetchers == {"w1", "w2", "alerts"}
Threads == Fetchers \cup {"main", "predictions"}
\* The worker threads fetch_all_predictions has spawned for the stops.
Spawned == {Workers[i] : i \in 1..Len(stops)}
StopOf(w) == IF w = "w1" THEN stops[1] ELSE stops[2]

\* ------------------------------------------------------ SF511API (pure)
\* A lock that excludes nobody (what the code would do without its locks).
NeverHeld(lock) == TRUE
\* threading.Lock: acquire succeeds only on a lock nobody holds.
Acquirable(lock) == lock = "free"

\* A with block that leaves its lock held.
StillHeld(lock) == lock
\* leaving a with block: the lock is released
Released(lock) == "free"

\* A counter that is read but not advanced.
NoAdvance(c, n) == c
\* (self.api_key_counter + 1) % len(self.api_key)
NextCounter(c, n) == (c + 1) % n

\* query_backoff of fetch_predictions and of fetch_alerts
InitialBackoff(t) == IF t = "alerts" THEN AlertsBackoff ELSE PredictionsBackoff

\* A retry that does not double its backoff.
SameBackoff(b) == b
\* backoff *= 2
NextBackoff(b) == b * 2

\* --------------------------------------------------- payloads (inputs)
Visit(t) == [null |-> FALSE, ExpectedArrivalTime |-> t]
VisitNull == [null |-> TRUE, ExpectedArrivalTime |-> 0]
\* StopMonitoring answers: one without 'ServiceDelivery', and one with five
\* visits of which one has no ExpectedArrivalTime.
PredictionPayloads ==
  { [shape |-> "malformed", MonitoredStopVisit |-> << >>],
    [shape |-> "ok", MonitoredStopVisit |->
       <<Visit(Epoch + 125), VisitNull, Visit(Epoch + 305), Visit(Epoch + 650),
         Visit(Epoch + 900)>>] }

Period(a, b) == [Start |-> a, End |-> b]
Informed(code) == [has_StopId |-> TRUE, StopId |-> code]
InformedRoute == [has_StopId |-> FALSE, StopId |-> ""]
Translation(lang, text) == [Language |-> lang, Text |-> text]
Alert(periods, entities, translations) ==
  [ActivePeriods |-> periods, InformedEntities |-> entities,
   Translations |-> translations]
\* servicealerts answers: one without 'Entities', one without alerts, one with
\* an alert for the first stop, an ignored one, an expired one, and one for
\* both stops with two active periods: it is active up to Epoch and again
\* from Epoch + 2 to Epoch + 4.
AlertPayloads ==
  { [shape |-> "malformed", Entities |-> << >>],
    [shape |-> "ok", Entities |-> << >>],
    [shape |-> "ok", Entities |->
       << Alert(<<Period(Epoch - 9, Epoch + 9)>>, <<InformedRoute, Informed("s1")>>,
                <<Translation("es", <<"B">>), Translation("en", <<"A">>)>>),
          Alert(<<Period(Epoch - 9, Epoch + 9)>>, <<Informed("s1"), Informed("s2")>>,
                <<Translation("en", <<"x", "y">>)>>),
          Alert(<<Period(Epoch - 9, Epoch - 1)>>, <<Informed("s1")>>,
                <<Translation("en", <<"E">>)>>),
          Alert(<<Period(Epoch - 9, Epoch), Period(Epoch + 2, Epoch + 4)>>,
                <<Informed("s2"), Informed("s1")>>,
                <<Translation("en", <<"C", "D">>)>>) >>] }

\* ------------------------------------------- TransitDisplayDriver (pure)
RECURSIVE Flatten(_)
Flatten(ss) == IF Len(ss) = 0 THEN << >> ELSE Head(ss) \o Flatten(Tail(ss))

\* [f(x) for x in s]
Map(f(_), s) == [i \in 1..Len(s) |-> f(s[i])]

\* fetch_and_parse_predictions: the timestamps of the visits that have a time
ParsePredictions(raw) ==
  LET HasTime(v) == ~v.null
      Time(v) == v.ExpectedArrivalTime
  IN  Map(Time, SelectSeq(raw.MonitoredStopVisit, HasTime))

\* An alert is kept between Start and End only.
ActiveInside(alert, t) ==
  \E i \in 1..Len(alert.ActivePeriods) :
     /\ alert.ActivePeriods[i].Start < t
     /\ t < alert.ActivePeriods[i].End
\* any(period['Start'] <= now <= period['End'] for period in ActivePeriods)
ActiveAt(alert, t) ==
  \E i \in 1..Len(alert.ActivePeriods) :
     /\ alert.ActivePeriods[i].Start <= t
     /\ t <= alert.ActivePeriods[i].End

\* stop_code in [ie['StopId'] for ie in InformedEntities if 'StopId' in ie]
Informs(alert, stop_code) ==
  \E i \in 1..Len(alert.InformedEntities) :
     /\ alert.InformedEntities[i].has_StopId
     /\ alert.InformedEntities[i].StopId = stop_code

Ignored(text) ==
  \E i \in 1..Len(ignored_alert_text) : Contains(ignored_alert_text[i], text)

\* next((t['Text'] for t in alert if en and not ignored), None), as a
\* sequence of zero or one text
FirstEnglishText(translations) ==
  LET Keep(t) == t.Language = "en" /\ ~Ignored(t.Text)
      kept == SelectSeq(translations, Keep)
  IN  IF Len(kept) = 0 THEN << >> ELSE <<kept[1].Text>>

\* fetch_alerts: the alert strings of a stop at time t
AlertStrsOf(raw, stop, t) ==
  LET Match(a) == ActiveAt(a, t) /\ Informs(a, stop.stop_code)
      Texts(a) == FirstEnglishText(a.Translations)
  IN  Flatten(Map(Texts, SelectSeq(raw.Entities, Match)))

\* fetch_alerts: stop_to_alert_strs, keyed by line
AlertFilter(raw, ss, t) ==
  [l \in LinesOf(ss) |->
     AlertStrsOf(raw, CHOOSE s \in {ss[i] : i \in 1..Len(ss)} : s.line = l, t)]

\* An update in place, seen after its first append.
ReplaceAppendOne(old, new) == old \o SubSeq(new, 1, 1)
\* self.prediction_times[line] = expected_times
Replace(old, new) == new

\* The string of all the times, not of the first three.
DisplayAll(times, t) ==
  IF Len(times) = 0 THEN NA
  ELSE LET Minutes(e) == IntToStr(Max(0, (e - t) \div 60))
       IN  Join(<<",">>, Map(Minutes, times))
\* expected_times_to_display_str, with now = t
ExpectedTimesToDisplayStr(times, t) ==
  IF Len(times) = 0 THEN NA
  ELSE LET three == SubSeq(times, 1, IF Len(times) < 3 THEN Len(times) ELSE 3)
           Minutes(e) == IntToStr(Max(0, (e - t) \div 60))
       IN  Join(<<",">>, Map(Minutes, three))

\* " / ".join(self.alerts[line])
AlertStr(list) == Join(<<" ", "/", " ">>, list)

\* The reset test with < for <=.
ScrollStrict(text, offset) ==
  IF offset < -(FontWidth * Len(text)) THEN Cols ELSE offset - 1
\* draw_text_scroll: the offset it returns
DrawTextScroll(text, offset) ==
  IF offset <= -(FontWidth * Len(text)) THEN Cols ELSE offset - 1

\* An empty alert text that leaves the offset where it was.
DrawLineDataKeep(predictions_str, alert_str, scroll_offset) ==
  IF alert_str # Empty THEN DrawTextScroll(alert_str, scroll_offset) ELSE scroll_offset

\* draw_line_data: the offset it returns
DrawLineData(predictions_str, alert_str, scroll_offset) ==
  IF alert_str # Empty THEN DrawTextScroll(alert_str, scroll_offset) ELSE Cols

\* draw_line_data: the data text it draws and where
DrawnText(predictions_str, alert_str, scroll_offset) ==
  IF alert_str # Empty
    THEN [x |-> DataTextX + scroll_offset, text |-> alert_str, kind |-> "alert"]
    ELSE [x |-> DataTextX, text |-> predictions_str, kind |-> "predictions"]

\* max(0, round(now - self.prediction_data_last_updated)), on whole seconds
SecsLastUpdated(t, last) == Max(0, t - last)

\* The stale test with > for >=.
StaleAbove(secs) == secs > TrainStaleSecs
\* secs_last_updated >= self.train_stale_secs
IsStale(secs) == secs >= TrainStaleSecs

\* draw_train_animation: the new slowdown counter, position and color
DrawTrainAnimation(counter, pos, color, secs) ==
  LET c == (counter + 1) % TrainSlowdownFactor
  IN  IF c # 0 THEN [counter |-> c, pos |-> pos, color |-> color]
      ELSE IF IsStale(secs)
        THEN [counter |-> c,
              pos |-> IF pos = TrainShakePos THEN TrainShakeAlt ELSE TrainShakePos,
              color |-> "default"]
        ELSE [counter |-> c,
              pos |-> (pos + 1) % (TrainWrapBase + TrainLength),
              color |-> IF secs < FreshSecs THEN "updated" ELSE "default"]

\* with lock_a and lock_b: `a and b` is b when a is truthy, and a Lock object
\* is always truthy, so the with statement acquires lock_b alone.
LockAnd(lock_a, lock_b) == lock_b

\* ------------------------------------------------------------ initial
NoStrs == [top |-> Empty, bottom |-> Empty, top_alert |-> Empty, bottom_alert |-> Empty]
NoSeen == [top |-> << >>, bottom |-> << >>, top_alert |-> << >>, bottom_alert |-> << >>]
Blank == [top |-> [x |-> 0, text |-> Empty, kind |-> "none"],
          bottom |-> [x |-> 0, text |-> Empty, kind |-> "none"],
          train |-> [x0 |-> 0, x1 |-> 0, color |-> "none"]]

\* SF511API.__init__
InitApi(pool) ==
  /\ api_key = pool
  /\ api_key_counter = 0
  /\ api_key_lock = "free"
  /\ key_log = << >>

\* TransitDisplayDriver.__init__: the stores
InitStores(ss) ==
  /\ stops = ss
  /\ prediction_times = [l \in LinesOf(ss) |-> << >>]
  /\ prediction_time_locks = [l \in LinesOf(ss) |-> "free"]
  /\ prediction_data_last_updated = 0
  /\ alerts = [l \in LinesOf(ss) |-> << >>]
  /\ alert_data_last_updated = 0
  /\ alert_data_lock = "free"
  /\ written = [predictions |-> [l \in LinesOf(ss) |-> {<< >>}],
                alerts |-> [l \in LinesOf(ss) |-> {<< >>}]]

\* TransitDisplayDriver.__init__: the render state
InitRender ==
  /\ top_text_scroll_offset = Cols
  /\ bottom_text_scroll_offset = Cols
  /\ train_pos = 0
  /\ train_color = "default"
  /\ train_slowdown_counter = 0
  /\ canvas = Blank
  /\ frames = 0
  /\ strs = NoStrs
  /\ seen = NoSeen

\* No thread started yet: main() is about to call driver.run().
NotStarted == [t \in Threads |->
                 IF t = "main" THEN "run"
                 ELSE IF t \in {"w1", "w2"} THEN "idle" ELSE "off"]

InitThreads(start, budget, lim) ==
  /\ pc = start
  /\ limits = lim
  /\ key = [t \in Fetchers |-> "none"]
  /\ backoff = [t \in Fetchers |-> 0]
  /\ sleeps = [t \in Fetchers |-> << >>]
  /\ outages = budget
  /\ cycle = [predictions |-> 0, alerts |-> 0]
  /\ stamps = [predictions |-> 0, alerts |-> 0]
  /\ now = Epoch

\* The clock readings of the threaded specifications.
Clock == Epoch..(Epoch + MaxNow)
Limits(c, f, k) == [cycles |-> c, frames |-> f, clock |-> k]

Init ==
  /\ \E pool \in KeyPools : InitApi(pool)
  /\ \E ss \in StopLists : InitStores(ss)
  /\ InitRender
  /\ InitThreads(NotStarted, 0, Limits(MaxCycles, MaxFrames, Clock))

\* A clock that may step back.
AnyReading(t) == TRUE
\* time(): a reading of the clock, not before the last one
Time(t) == t >= now

Terminal == {"done", "IndexError", "KeyError"}

\* A stamp that does not wait for the workers.
JoinNoWait == TRUE
\* for thread in threads: thread.join()
JoinReturns == \A w \in Spawned : pc[w] \in Terminal

Goto(t, p) == pc' = [pc EXCEPT ![t] = p]

\* ------------------------------------------------------- SF511API steps
\* next_api_key: enter the with block and read self.api_key[self.api_key_counter];
\* on an empty pool the read raises IndexError and the thread ends.
NextApiKeyRead(t) ==
  /\ pc[t] = "next_key"
  /\ Acquirable(api_key_lock)
  /\ IF Len(api_key) = 0
       THEN /\ Goto(t, "IndexError")
            /\ UNCHANGED <<api_key_lock, key>>
       ELSE /\ Goto(t, "advance")
            /\ api_key_lock' = t
            /\ key' = [key EXCEPT ![t] = api_key[api_key_counter + 1]]
  /\ UNCHANGED <<limits, api_key, api_key_counter, key_log, backoff, sleeps, outages, predVars,
                 alertVars, readVars, animVars, loopVars, stops,
                 prediction_data_last_updated, now>>

\* next_api_key: advance the counter, leave the with block, return the key;
\* the caller builds its request and enters fetch_internal.
NextApiKeyAdvance(t) ==
  /\ pc[t] = "advance"
  /\ api_key_counter' = NextCounter(api_key_counter, Len(api_key))
  /\ api_key_lock' = Released(api_key_lock)
  /\ key_log' = Append(key_log, key[t])
  /\ backoff' = [backoff EXCEPT ![t] = InitialBackoff(t)]
  /\ sleeps' = [sleeps EXCEPT ![t] = << >>]
  /\ Goto(t, "fetch")
  /\ UNCHANGED <<limits, api_key, key, outages, predVars, alertVars, readVars,
                 animVars, loopVars, stops, prediction_data_last_updated, now>>

\* fetch_internal: an attempt raises requests.RequestException; sleep(backoff),
\* double it, try the same request again.
FetchInternalFail(t) ==
  /\ pc[t] = "fetch"
  /\ outages > 0
  /\ outages' = outages - 1
  /\ sleeps' = [sleeps EXCEPT ![t] = Append(@, backoff[t])]
  /\ backoff' = [backoff EXCEPT ![t] = NextBackoff(@)]
  /\ UNCHANGED <<limits, keyVars, key, predVars, alertVars, readVars,
                 animVars, loopVars, stops, prediction_data_last_updated, now, pc>>

\* ------------------------------------------------- predictions polling
\* query_call_loop_thread -> fetch_all_predictions: start a worker per stop.
FetchAllPredictionsSpawn ==
  /\ pc["predictions"] \in {"call", "sleep"}
  /\ cycle["predictions"] < limits.cycles
  /\ cycle' = [cycle EXCEPT !["predictions"] = @ + 1]
  /\ pc' = [t \in Threads |->
              IF t = "predictions" THEN "join"
              ELSE IF t \in Spawned THEN "next_key" ELSE pc[t]]
  /\ UNCHANGED <<limits, keyVars, fetchVars, predVars, alertVars,
                 readVars, animVars, stamps, stops, prediction_data_last_updated, now>>

\* fetch_all_predictions: the joins return, the freshness stamp is written,
\* the loop sleeps.
FetchAllPredictionsStamp ==
  /\ pc["predictions"] = "join"
  /\ JoinReturns
  /\ \E t \in limits.clock : /\ Time(t)
                      /\ now' = t
                      /\ prediction_data_last_updated' = t
  /\ stamps' = [stamps EXCEPT !["predictions"] = @ + 1]
  /\ Goto("predictions", "sleep")
  /\ UNCHANGED <<limits, keyVars, fetchVars, predVars, alertVars, readVars,
                 animVars, cycle, stops>>

\* fetch_and_parse_predictions: fetch_internal returns the payload; a payload
\* without the expected fields raises KeyError and ends the worker; otherwise
\* the times are parsed and stored under the line's lock.
FetchAndParsePredictions(w) ==
  /\ pc[w] = "fetch"
  /\ w \in Spawned
  /\ \E raw \in PredictionPayloads :
       IF raw.shape = "malformed"
         THEN /\ Goto(w, "KeyError")
              /\ UNCHANGED predVars
         ELSE LET line == StopOf(w).line
                  times == ParsePredictions(raw)
              IN  /\ Acquirable(prediction_time_locks[line])
                  /\ prediction_times' =
                       [prediction_times EXCEPT ![line] = Replace(@, times)]
                  /\ written' = [written EXCEPT !["predictions"][line] = @ \cup {times}]
                  /\ UNCHANGED prediction_time_locks
                  /\ Goto(w, "done")
  /\ UNCHANGED <<limits, keyVars, fetchVars, alertVars, readVars, animVars, loopVars,
                 stops, prediction_data_last_updated, now>>

\* ------------------------------------------------------ alerts polling
\* query_call_loop_thread -> fetch_alerts -> api.fetch_alerts
FetchAlertsCall ==
  /\ pc["alerts"] \in {"call", "sleep"}
  /\ cycle["alerts"] < limits.cycles
  /\ cycle' = [cycle EXCEPT !["alerts"] = @ + 1]
  /\ Goto("alerts", "next_key")
  /\ UNCHANGED <<limits, keyVars, fetchVars, predVars, alertVars, readVars,
                 animVars, stamps, stops, prediction_data_last_updated, now>>

\* fetch_alerts: fetch_internal returns the payload; now = time(); a payload
\* without the expected fields raises KeyError and ends the loop; otherwise the
\* alerts are filtered per stop and, under the alert lock, the stamp is taken
\* from time() and self.alerts is replaced; the loop sleeps.
FetchAlerts ==
  /\ pc["alerts"] = "fetch"
  /\ \E raw \in AlertPayloads, t1 \in limits.clock, t2 \in limits.clock :
       /\ Time(t1)
       /\ t2 >= t1
       /\ IF raw.shape = "malformed"
            THEN /\ now' = t1
                 /\ Goto("alerts", "KeyError")
                 /\ UNCHANGED <<alertVars, written, stamps>>
            ELSE LET stop_to_alert_strs == AlertFilter(raw, stops, t1)
                 IN  /\ Acquirable(alert_data_lock)
                     /\ now' = t2
                     /\ alert_data_last_updated' = t2
                     /\ alerts' = stop_to_alert_strs
                     /\ written' = [written EXCEPT !["alerts"] =
                           [l \in DOMAIN @ |-> @[l] \cup {stop_to_alert_strs[l]}]]
                     /\ UNCHANGED alert_data_lock
                     /\ stamps' = [stamps EXCEPT !["alerts"] = @ + 1]
                     /\ Goto("alerts", "sleep")
  /\ UNCHANGED <<limits, keyVars, fetchVars, prediction_times, prediction_time_locks,
                 readVars, animVars, cycle, stops, prediction_data_last_updated>>

\* ---------------------------------------------------------- main thread
\* run: fetch_thread.start()
RunStartFetchThread ==
  /\ pc["main"] = "run"
  /\ pc' = [pc EXCEPT !["main"] = "start_alerts", !["predictions"] = "call"]
  /\ UNCHANGED <<limits, keyVars, fetchVars, predVars, alertVars, readVars,
                 animVars, loopVars, stops, prediction_data_last_updated, now>>

\* run: alerts_thread.start()
RunStartAlertsThread ==
  /\ pc["main"] = "start_alerts"
  /\ pc' = [pc EXCEPT !["main"] = "frame", !["alerts"] = "call"]
  /\ UNCHANGED <<limits, keyVars, fetchVars, predVars, alertVars, readVars,
                 animVars, loopVars, stops, prediction_data_last_updated, now>>

\* The line whose lock get_prediction_strs holds.
HeldLine == LockAnd(stops[1].line, stops[2].line)

\* run: canvas.Clear(); get_prediction_strs enters its with statement and
\* formats top_str.  self.stops[1] raises IndexError when a single stop is
\* configured.
GetPredictionStrsTop ==
  /\ pc["main"] = "frame"
  /\ frames < limits.frames
  /\ IF Len(stops) < 2
       THEN /\ Goto("main", "IndexError")
            /\ UNCHANGED <<prediction_time_locks, strs, seen, now>>
       ELSE /\ Acquirable(prediction_time_locks[HeldLine])
            /\ prediction_time_locks' = [prediction_time_locks EXCEPT ![HeldLine] = "main"]
            /\ \E t \in limits.clock :
                 /\ Time(t)
                 /\ now' = t
                 /\ strs' = [strs EXCEPT !.top =
                      ExpectedTimesToDisplayStr(prediction_times[stops[1].line], t)]
            /\ seen' = [seen EXCEPT !.top = prediction_times[stops[1].line]]
            /\ Goto("main", "read_bottom")
  /\ UNCHANGED <<limits, keyVars, fetchVars, prediction_times, written, alertVars,
                 animVars, loopVars, stops, prediction_data_last_updated>>

\* get_prediction_strs: bottom_str, then leave the with block.
GetPredictionStrsBottom ==
  /\ pc["main"] = "read_bottom"
  /\ \E t \in limits.clock :
       /\ Time(t)
       /\ now' = t
       /\ strs' = [strs EXCEPT !.bottom =
                     ExpectedTimesToDisplayStr(prediction_times[stops[2].line], t)]
  /\ seen' = [seen EXCEPT !.bottom = prediction_times[stops[2].line]]
  /\ prediction_time_locks' = [prediction_time_locks EXCEPT ![HeldLine] = Released(@)]
  /\ Goto("main", "alerts")
  /\ UNCHANGED <<limits, keyVars, fetchVars, prediction_times, written, alertVars,
                 animVars, loopVars, stops, prediction_data_last_updated>>

\* get_alert_strs: enter the with block, top_alert_str
GetAlertStrsTop ==
  /\ pc["main"] = "alerts"
  /\ Acquirable(alert_data_lock)
  /\ alert_data_lock' = "main"
  /\ strs' = [strs EXCEPT !.top_alert = AlertStr(alerts[stops[1].line])]
  /\ seen' = [seen EXCEPT !.top_alert = alerts[stops[1].line]]
  /\ Goto("main", "alert_bottom")
  /\ UNCHANGED <<limits, keyVars, fetchVars, predVars, alerts, alert_data_last_updated,
                 animVars, loopVars, stops, prediction_data_last_updated, now>>

\* get_alert_strs: bottom_alert_str, then leave the with block.
GetAlertStrsBottom ==
  /\ pc["main"] = "alert_bottom"
  /\ strs' = [strs EXCEPT !.bottom_alert = AlertStr(alerts[stops[2].line])]
  /\ seen' = [seen EXCEPT !.bottom_alert = alerts[stops[2].line]]
  /\ alert_data_lock' = Released(alert_data_lock)
  /\ Goto("main", "draw")
  /\ UNCHANGED <<limits, keyVars, fetchVars, predVars, alerts, alert_data_last_updated,
                 animVars, loopVars, stops, prediction_data_last_updated, now>>

\* run: both draw_line_data calls, draw_train_animation with now = t and the
\* frame swap.
DrawFrame(s, t) ==
  LET train == DrawTrainAnimation(train_slowdown_counter, train_pos, train_color,
                                  SecsLastUpdated(t, prediction_data_last_updated))
  IN  /\ top_text_scroll_offset' =
           DrawLineData(s.top, s.top_alert, top_text_scroll_offset)
      /\ bottom_text_scroll_offset' =
           DrawLineData(s.bottom, s.bottom_alert, bottom_text_scroll_offset)
      /\ train_slowdown_counter' = train.counter
      /\ train_pos' = train.pos
      /\ train_color' = train.color
      /\ canvas' = [top |-> DrawnText(s.top, s.top_alert, top_text_scroll_offset),
                    bottom |-> DrawnText(s.bottom, s.bottom_alert, bottom_text_scroll_offset),
                    train |-> [x0 |-> train.pos - TrainLength, x1 |-> train.pos,
                               color |-> train.color]]
      /\ frames' = frames + 1

\* run: the rest of the loop body: draw, swap, sleep; the frame's strings go
\* out of scope.
RunDraw ==
  /\ pc["main"] = "draw"
  /\ \E t \in limits.clock : /\ Time(t)
                      /\ now' = t
                      /\ DrawFrame(strs, t)
  /\ strs' = NoStrs
  /\ seen' = NoSeen
  /\ Goto("main", "frame")
  /\ UNCHANGED <<limits, keyVars, fetchVars, predVars, alertVars, loopVars,
                 stops, prediction_data_last_updated>>

Next ==
  \/ RunStartFetchThread
  \/ RunStartAlertsThread
  \/ GetPredictionStrsTop
  \/ GetPredictionStrsBottom
  \/ GetAlertStrsTop
  \/ GetAlertStrsBottom
  \/ RunDraw
  \/ FetchAllPredictionsSpawn
  \/ FetchAllPredictionsStamp
  \/ FetchAlertsCall
  \/ FetchAlerts
  \/ \E t \in Fetchers : NextApiKeyRead(t)
  \/ \E t \in Fetchers : NextApiKeyAdvance(t)
  \/ \E w \in {"w1", "w2"} : FetchAndParsePredictions(w)

Spec == Init /\ [][Next]_vars

\* ------------------------------------------- the fetch threads alone
\* The polling threads and their workers with a network that fails: the
\* render loop is left out (it calls neither next_api_key nor fetch_internal)
\* and the clock stands still.
InitFetch ==
  /\ InitApi(Pool(MaxKeys))
  /\ InitStores(<<StopN, StopJ>>)
  /\ InitRender
  /\ InitThreads(NotStarted, MaxOutages, Limits(MaxCycles, 0, {Epoch}))

NextFetch ==
  \/ RunStartFetchThread
  \/ RunStartAlertsThread
  \/ FetchAllPredictionsSpawn
  \/ FetchAllPredictionsStamp
  \/ FetchAlertsCall
  \/ FetchAlerts
  \/ \E t \in Fetchers : NextApiKeyRead(t)
  \/ \E t \in Fetchers : NextApiKeyAdvance(t)
  \/ \E t \in Fetchers : FetchInternalFail(t)
  \/ \E w \in {"w1", "w2"} : FetchAndParsePredictions(w)

SpecFetch == InitFetch /\ [][NextFetch]_vars

\* ------------------------------------------- one caller of next_api_key
\* The alerts loop alone, cycle after cycle: its calls of next_api_key are
\* sequential.  Every non-empty pool up to MaxKeys keys.
InitKeys ==
  /\ \E n \in 1..MaxKeys : InitApi(Pool(n))
  /\ \E ss \in StopLists : InitStores(ss)
  /\ InitRender
  /\ InitThreads(NotStarted, 0, Limits(2 * MaxKeys, 0, Clock))

NextKeys ==
  \/ RunStartFetchThread
  \/ RunStartAlertsThread
  \/ FetchAlertsCall
  \/ FetchAlerts
  \/ NextApiKeyRead("alerts")
  \/ NextApiKeyAdvance("alerts")

SpecKeys == InitKeys /\ [][NextKeys]_vars

\* ------------------------------------------------ the render loop alone
\* Both polling loops have completed their first cycle at the startup reading
\* of the clock and sleep out their query interval; the render loop, which
\* draws fifty frames a second, is about to clear the canvas for a frame.
\* al: the alerts the cycle stored, pos: where the train marker stands.
FirstTimes == ParsePredictions(CHOOSE raw \in PredictionPayloads : raw.shape = "ok")
\* pt: the prediction times the workers stored (none when the answer had no
\* visits), budget: the transport failures the network still has in store.
InitAfterFirstCycle(pt, al, pos, lim, budget) ==
  /\ api_key = Pool(MaxKeys)
  /\ key_log = [i \in 1..Cardinality(Fetchers) |-> Pool(MaxKeys)[((i - 1) % MaxKeys) + 1]]
  /\ api_key_counter = Cardinality(Fetchers) % MaxKeys
  /\ api_key_lock = "free"
  /\ key = [t \in Fetchers |->
              IF t = "w1" THEN key_log[1] ELSE IF t = "w2" THEN key_log[2] ELSE key_log[3]]
  /\ backoff = [t \in Fetchers |-> InitialBackoff(t)]
  /\ sleeps = [t \in Fetchers |-> << >>]
  /\ outages = budget
  /\ stops = <<StopN, StopJ>>
  /\ prediction_times = pt
  /\ prediction_time_locks = [l \in LinesOf(stops) |-> "free"]
  /\ prediction_data_last_updated = Epoch
  /\ alerts = al
  /\ alert_data_last_updated = Epoch
  /\ alert_data_lock = "free"
  /\ written = [predictions |-> [l \in LinesOf(stops) |-> {<< >>, pt[l]}],
                alerts |-> [l \in LinesOf(stops) |-> {<< >>, al[l]}]]
  /\ top_text_scroll_offset = Cols
  /\ bottom_text_scroll_offset = Cols
  /\ train_pos = pos
  /\ train_color = "default"
  /\ train_slowdown_counter = 0
  /\ canvas = Blank
  /\ frames = 0
  /\ strs = NoStrs
  /\ seen = NoSeen
  /\ pc = [t \in Threads |->
             IF t = "main" THEN "frame"
             ELSE IF t \in {"w1", "w2"} THEN "done" ELSE "sleep"]
  /\ cycle = [predictions |-> 1, alerts |-> 1]
  /\ stamps = [predictions |-> 1, alerts |-> 1]
  /\ now = Epoch
  /\ limits = lim

InitRunningWith(al, pos, lim, budget) ==
  InitAfterFirstCycle([l \in LinesOf(<<StopN, StopJ>>) |-> FirstTimes], al, pos, lim, budget)

InitRunning(al, pos, lim) == InitRunningWith(al, pos, lim, 0)

NextRender ==
  \/ GetPredictionStrsTop
  \/ GetPredictionStrsBottom
  \/ GetAlertStrsTop
  \/ GetAlertStrsBottom
  \/ RunDraw

\* The alert lists a line may have stored: none, one alert, two alerts.
AlertLists == { << >>, << <<"A">> >>, << <<"A">>, <<"C", "D">> >> }

\* Scrolling: every pair of stored alert lists, MaxTicks frames.
InitScroll ==
  \E al \in [LinesOf(<<StopN, StopJ>>) -> AlertLists] :
     InitRunning(al, 0, Limits(1, MaxTicks, Clock))

SpecScroll == InitScroll /\ [][NextRender]_vars

\* Clock readings around the fresh and the stale threshold of a stamp
\* written at Epoch.
TrainClock ==
  {Epoch + d : d \in 0..FreshSecs} \cup
  {Epoch + TrainStaleSecs + d : d \in (0 - 1)..1}

\* The train marker: no alerts, the marker at its first or its last position,
\* the frames of three marker moves.
InitTrain ==
  \E pos \in {0, TrainWrapBase + TrainLength - 1} :
     InitRunning([l \in LinesOf(<<StopN, StopJ>>) |-> << >>], pos,
                 Limits(1, 3 * TrainSlowdownFactor, TrainClock))

SpecTrain == InitTrain /\ [][NextRender]_vars

\* --------------------------------------------- the system once running
\* All threads from the state in which both polling loops have completed
\* their first cycle: further cycles run while the render loop draws and the
\* clock advances.  The readings include one from before the first cycle,
\* which a non-decreasing clock does not show again.
InitSecondCycle ==
  InitRunning([l \in LinesOf(<<StopN, StopJ>>) |-> << >>], 0,
              Limits(MaxCycles + 1, MaxFrames, (Epoch - 1)..(Epoch + MaxNow + 1)))

NextRunning ==
  \/ NextRender
  \/ FetchAllPredictionsSpawn
  \/ FetchAllPredictionsStamp
  \/ FetchAlertsCall
  \/ FetchAlerts
  \/ \E t \in Fetchers : NextApiKeyRead(t)
  \/ \E t \in Fetchers : NextApiKeyAdvance(t)
  \/ \E w \in {"w1", "w2"} : FetchAndParsePredictions(w)

SpecRunning == InitSecondCycle /\ [][NextRunning]_vars

\* ------------------------------------------ a prediction cycle that fails
\* The predictions loop starts further cycles while the render loop draws;
\* the network may fail the requests for the first stop, and nothing makes a
\* request succeed.  The clock readings reach past the stale threshold of the first
\* stamp.  The render loop is never held up for good: its steps are taken
\* whenever they stay possible.
StaleClock == {Epoch + TrainStaleSecs + d : d \in (0 - 1)..MaxNow}
InitStale ==
  InitRunningWith([l \in LinesOf(<<StopN, StopJ>>) |-> << >>], 0,
                  Limits(MaxCycles + 1, 2 * TrainSlowdownFactor, StaleClock),
                  MaxOutages)

NextStale ==
  \/ NextRender
  \/ FetchAllPredictionsSpawn
  \/ FetchAllPredictionsStamp
  \/ \E w \in {"w1", "w2"} : NextApiKeyRead(w)
  \/ \E w \in {"w1", "w2"} : NextApiKeyAdvance(w)
  \/ FetchInternalFail("w1")
  \/ \E w \in {"w1", "w2"} : FetchAndParsePredictions(w)

SpecStale == InitStale /\ [][NextStale]_vars /\ WF_vars(NextRender)

\* -------------------------------------------------- the alerts loop alone
\* The alerts loop from startup, over every configuration with a key, with
\* clock readings that cross the ends of the payload's active periods.
InitAlerts ==
  /\ \E n \in 1..MaxKeys : InitApi(Pool(n))
  /\ \E ss \in StopLists : InitStores(ss)
  /\ InitRender
  /\ InitThreads(NotStarted, 0,
                 Limits(MaxCycles + 1, 0, Epoch..(Epoch + AlertHorizon)))

SpecAlerts == InitAlerts /\ [][NextKeys]_vars

\* ------------------------------------------------ the prediction strings
\* One frame of the render loop for every pair of stored prediction
\* sequences (none, or the four times of the answer), at clock readings
\* before, at and after the first arrival.
DisplayClock == {Epoch + d : d \in {0, 5, 6, 125, 126}}
InitDisplay ==
  \E pt \in [LinesOf(<<StopN, StopJ>>) -> {<< >>, FirstTimes}] :
     InitAfterFirstCycle(pt, [l \in LinesOf(<<StopN, StopJ>>) |-> << >>], 0,
                         Limits(1, MaxFrames, DisplayClock), 0)

SpecDisplay == InitDisplay /\ [][NextRender]_vars

\* --------------------------------------------------- one lap of the train
\* The render loop alone from the marker's first position, with fresh data
\* and a clock that stands still, for the frames of one lap of the marker.
InitLap ==
  InitRunning([l \in LinesOf(<<StopN, StopJ>>) |-> << >>], 0,
              Limits(1, TrainSlowdownFactor * (TrainWrapBase + TrainLength), {Epoch}))

SpecLap == InitLap /\ [][NextRender]_vars

\* ------------------------------------- the render loop and the alerts loop
\* The first alerts cycle stored what the payload holds for the startup
\* reading of the clock; the alerts loop runs further cycles, with any
\* answer of the service, while the render loop scrolls the stored texts.
\* The clock readings reach the gap between the two active periods.
FirstAlerts == AlertFilter(CHOOSE raw \in AlertPayloads : Len(raw.Entities) > 0,
                           <<StopN, StopJ>>, Epoch)
InitBoard ==
  InitRunning(FirstAlerts, 0,
              Limits(MaxCycles + 1, MaxBoardFrames, Epoch..(Epoch + MaxNow + 1)))

NextBoard ==
  \/ NextRender
  \/ FetchAlertsCall
  \/ FetchAlerts
  \/ NextApiKeyRead("alerts")
  \/ NextApiKeyAdvance("alerts")

SpecBoard == InitBoard /\ [][NextBoard]_vars

\* ------------------------------------------ rendering while fetches fail
\* The render loop and the predictions loop from the state after the first
\* cycle: the loop runs further cycles, the network may fail the requests
\* for the first stop and nothing makes a request return; the clock stands
\* still.  The render loop's steps are taken
\* whenever they stay possible: it sleeps 20 ms a frame and waits for nothing
\* but its locks.
InitDecoupled ==
  InitRunningWith([l \in LinesOf(<<StopN, StopJ>>) |-> << >>], 0,
                  Limits(MaxCycles + 1, MaxFrames + 1, {Epoch}), MaxOutages)

NextDecoupled == NextStale

SpecDecoupled == InitDecoupled /\ [][NextDecoupled]_vars /\ WF_vars(NextRender)

\* --------------------------------------------- alerts that come and go
\* As SpecBoard, for a few frames and one more cycle of the alerts loop: an
\* alert can be drawn, vanish and be stored again.
InitReappear ==
  InitRunning(FirstAlerts, 0,
              Limits(MaxCycles + 2, MaxFrames + 3, Epoch..(Epoch + MaxNow + 2)))

SpecReappear == InitReappear /\ [][NextBoard]_vars

\* ============================================================== claims
\* A worker performs its write of prediction_times in this step.
WorkerWrites == \E w \in Spawned : pc[w] = "fetch" /\ pc'[w] = "done"

\* C1: between the moment the render thread enters the paired read of
\* get_prediction_strs and the moment it leaves it, no fetch worker performs
\* its write to either row's prediction sequence.
C1_NoWriteDuringPairedRead ==
  [][pc["main"] = "read_bottom" => ~WorkerWrites]_vars

\* C2: every prediction sequence and every alert sequence the render thread
\* has read for a line is a value one completed write stored for that line,
\* or the initial empty sequence.
C2_ReadsAreStoredValues ==
  Len(stops) >= 2 =>
    /\ seen.top \in written["predictions"][stops[1].line]
    /\ seen.bottom \in written["predictions"][stops[2].line]
    /\ seen.top_alert \in written["alerts"][stops[1].line]
    /\ seen.bottom_alert \in written["alerts"][stops[2].line]

\* The render thread has read, in one frame, a stored prediction sequence and
\* a stored alert sequence that are not the initial ones.
C2_Witness ==
  /\ pc["main"] = "draw"
  /\ seen.top # << >>
  /\ seen.bottom # << >>
  /\ seen.top_alert # << >>
  /\ seen.bottom_alert # << >>

\* C3: the freshness stamp of a prediction cycle is written only once every
\* worker spawned in that cycle has terminated; while one worker is still
\* fetching (or retrying) the stamp of the cycle is not written.
C3_StampAfterJoin ==
  /\ stamps["predictions"] <= cycle["predictions"]
  /\ (\E w \in Spawned : pc[w] \in {"next_key", "advance", "fetch"})
       => /\ pc["predictions"] = "join"
          /\ stamps["predictions"] < cycle["predictions"]
  /\ pc["predictions"] = "sleep"
       => /\ stamps["predictions"] = cycle["predictions"]
          /\ \A w \in Spawned : pc[w] \in Terminal

\* A cycle has been stamped after one of its workers retried and both wrote.
C3_Witness ==
  /\ pc["predictions"] = "sleep"
  /\ prediction_data_last_updated >= Epoch
  /\ sleeps["w2"] # << >>
  /\ pc["w1"] = "done"
  /\ pc["w2"] = "done"

\* The k-th key of the rotation (k from 0).
KeyAt(k) == api_key[(k % Len(api_key)) + 1]
\* How often key k was returned.
Returned(k) == Cardinality({i \in 1..Len(key_log) : key_log[i] = k})

\* C4: sequential calls of next_api_key on a non-empty pool of N keys return
\* keys[k mod N] at the k-th call, so after 2N calls each key was returned
\* exactly twice.
C4_RoundRobinTwice ==
  /\ \A i \in 1..Len(key_log) : key_log[i] = KeyAt(i - 1)
  /\ Len(key_log) = 2 * Len(api_key)
       => \A j \in 1..Len(api_key) : Returned(api_key[j]) = 2

\* The largest pool has been walked twice.
C4_Witness ==
  /\ Len(api_key) = MaxKeys
  /\ Len(key_log) = 2 * MaxKeys

\* C5: with the workers and the alerts thread calling next_api_key
\* concurrently, at most one caller is between the read of the counter and its
\* advance, and the m completed calls returned the keys at counter values
\* 0 .. m-1 (mod N), none skipped and none handed out twice.
C5_AtomicHandout ==
  /\ \A t \in Fetchers : pc[t] = "advance"
       => /\ api_key_lock = t
          /\ key[t] = KeyAt(Len(key_log))
  /\ api_key_counter = Len(key_log) % Len(api_key)
  /\ \A i \in 1..Len(key_log) : key_log[i] = KeyAt(i - 1)
  /\ \A t \in Fetchers : pc[t] = "fetch" => \E i \in 1..Len(key_log) : key_log[i] = key[t]

\* Three callers have been served, the alerts thread between the two workers.
C5_Witness ==
  /\ Len(key_log) = 3
  /\ key["w2"] = KeyAt(0)
  /\ key["alerts"] = KeyAt(1)
  /\ key["w1"] = KeyAt(2)

\* The sleeps of a call that failed n times, from initial backoff b.
Doubling(b, n) == [i \in 1..n |-> b * Pow2(i - 1)]

\* C6: the sleeps of one call of fetch_internal are b, 2b, 4b, ... from the
\* caller's initial backoff, a failed attempt is followed by a retry with the
\* same API key and no call of next_api_key, and the call ends only by an
\* attempt that returns a payload.
C6_SleepsDouble ==
  \A t \in Fetchers :
    pc[t] \notin {"idle", "off", "call", "next_key", "advance", "IndexError"} =>
      /\ sleeps[t] = Doubling(InitialBackoff(t), Len(sleeps[t]))
      /\ backoff[t] = InitialBackoff(t) * Pow2(Len(sleeps[t]))

C6_RetrySameRequest ==
  [][\A t \in Fetchers :
       /\ sleeps'[t] # sleeps[t] /\ pc[t] = "fetch"
            => /\ pc'[t] = "fetch"
               /\ key'[t] = key[t]
               /\ key_log' = key_log
               /\ api_key_counter' = api_key_counter
       /\ pc[t] = "fetch" /\ pc'[t] # "fetch"
            => /\ pc'[t] \in {"done", "sleep", "KeyError"}
               /\ sleeps'[t] = sleeps[t]]_vars

C6_Retry == []C6_SleepsDouble /\ C6_RetrySameRequest

\* The alerts call returned after MaxOutages failed attempts, a prediction
\* call is retrying.
C6_Witness ==
  /\ pc["alerts"] = "sleep"
  /\ Len(sleeps["alerts"]) = MaxOutages - 1
  /\ pc["w1"] = "fetch"
  /\ Len(sleeps["w1"]) = 1

\* C7: after a parsing failure the scheduling loop of that data kind starts
\* no further cycle and writes no further freshness stamp.
C7_ParseFailureEndsLoop ==
  [][/\ (Len(api_key) > 0 /\ Len(stops) = 2 /\ \E w \in Spawned : pc[w] = "KeyError")
          => /\ cycle'["predictions"] = cycle["predictions"]
             /\ stamps'["predictions"] = stamps["predictions"]
             /\ prediction_data_last_updated' = prediction_data_last_updated
     /\ pc["alerts"] = "KeyError"
          => /\ cycle'["alerts"] = cycle["alerts"]
             /\ stamps'["alerts"] = stamps["alerts"]
             /\ alert_data_last_updated' = alert_data_last_updated
             /\ alerts' = alerts]_vars

\* C8: with an empty key pool or fewer than two stops, no polling thread and
\* no render loop is started, no cycle and no frame runs.
C8_ConfigErrorBeforeStart ==
  (Len(api_key) = 0 \/ Len(stops) < 2) =>
    /\ pc["predictions"] = "off"
    /\ pc["alerts"] = "off"
    /\ pc["main"] = "run"
    /\ cycle = [predictions |-> 0, alerts |-> 0]

\* The text a row scrolls and its pixel length.
RowText(l) == AlertStr(alerts[l])
PixelLength(text) == FontWidth * Len(text)
RowOffsets == <<top_text_scroll_offset, bottom_text_scroll_offset>>

\* C9 as stated: for a row that shows the same non-empty alert text on every
\* tick, starting from offset 64, after exactly 64 + L ticks the stored offset
\* is 64 again.
C9_ResetAfterColsPlusL ==
  \A r \in 1..2 :
    LET text == RowText(stops[r].line)
    IN  (text # Empty /\ frames = Cols + PixelLength(text)) => RowOffsets[r] = Cols

\* C9 amended: for such a row the stored offset after k ticks is
\* 64 - (k mod (64 + L + 1)): it is -L after 64 + L ticks and is reset to 64
\* by the tick after that, with period 64 + L + 1.
C9_ResetAfterColsPlusLPlusOne ==
  \A r \in 1..2 :
    LET text == RowText(stops[r].line)
    IN  text # Empty => RowOffsets[r] = Cols - (frames % (Cols + PixelLength(text) + 1))

\* The row with the two alerts has been reset for the second time.
C9_Witness ==
  LET text == RowText(stops[1].line)
  IN  /\ Len(alerts[stops[1].line]) = 2
      /\ frames = 2 * (Cols + PixelLength(text) + 1)
      /\ top_text_scroll_offset = Cols

\* C10: a marker move with secs_stale below the threshold (119) advances the
\* position by one modulo the wrap; a marker move with secs_stale at or above
\* it (120, 121) sets the position to 34 or 35, the other one of the two when
\* it was on one of them; a frame that is no marker move leaves it alone.
C10_StaleThreshold ==
  [][frames' = frames + 1 =>
       LET secs == SecsLastUpdated(now', prediction_data_last_updated)
           shake == {TrainShakePos, TrainShakeAlt}
       IN  IF train_slowdown_counter' # 0
             THEN train_pos' = train_pos
             ELSE /\ secs < TrainStaleSecs
                       => train_pos' = (train_pos + 1) % (TrainWrapBase + TrainLength)
                  /\ secs >= TrainStaleSecs
                       => /\ train_pos' \in shake
                          /\ train_pos' # train_pos]_vars

\* Three marker moves: one that advanced, one that went to 34 on the data
\* becoming stale, one that flipped to 35.
C10_Witness ==
  /\ frames = 3 * TrainSlowdownFactor
  /\ train_pos = TrainShakeAlt
  /\ SecsLastUpdated(now, prediction_data_last_updated) >= TrainStaleSecs

\* C11: both freshness stamps never decrease, the predictions stamp changes
\* only in the step of fetch_all_predictions that follows its joins, and the
\* alerts stamp only in the step of fetch_alerts that stores the alerts:
\* no step of the render loop or of a worker changes them.
C11_StampsMonotone ==
  [][/\ prediction_data_last_updated' >= prediction_data_last_updated
     /\ alert_data_last_updated' >= alert_data_last_updated
     /\ prediction_data_last_updated' # prediction_data_last_updated
          => /\ pc["predictions"] = "join"
             /\ pc'["predictions"] = "sleep"
             /\ \A t \in Threads \ {"predictions"} : pc'[t] = pc[t]
     /\ alert_data_last_updated' # alert_data_last_updated
          => /\ pc["alerts"] = "fetch"
             /\ pc'["alerts"] = "sleep"
             /\ \A t \in Threads \ {"alerts"} : pc'[t] = pc[t]]_vars

\* Both stamps have been overwritten by a later reading, with a frame drawn
\* in between.
C11_Witness ==
  /\ stamps = [predictions |-> 2, alerts |-> 2]
  /\ prediction_data_last_updated > Epoch
  /\ alert_data_last_updated > Epoch
  /\ frames > 0

\* The locks and who holds them.
LockNames == {"api_key_lock", "alert_data_lock"} \cup LinesOf(stops)
HolderOf(k) ==
  IF k = "api_key_lock" THEN api_key_lock
  ELSE IF k = "alert_data_lock" THEN alert_data_lock
  ELSE prediction_time_locks[k]
\* The lock thread t needs for its next step, "none" when it needs none.
Wants(t) ==
  IF t \in Fetchers /\ pc[t] = "next_key" THEN "api_key_lock"
  ELSE IF t \in Spawned /\ pc[t] = "fetch" THEN StopOf(t).line
  ELSE IF t = "alerts" /\ pc[t] = "fetch" THEN "alert_data_lock"
  ELSE IF t = "main" /\ pc[t] = "frame" /\ Len(stops) >= 2 THEN HeldLine
  ELSE IF t = "main" /\ pc[t] = "alerts" THEN "alert_data_lock"
  ELSE "none"
Blocked(t) == Wants(t) # "none" /\ HolderOf(Wants(t)) # "free"
Held(t) == {k \in LockNames : HolderOf(k) = t}

\* No thread holds two locks, a thread that holds a lock needs no lock for its
\* next step, and a thread inside a with block is the holder of its lock.
C12_NoHoldAndWait ==
  /\ \A t \in Threads : Cardinality(Held(t)) <= 1
  /\ \A t \in Threads : Held(t) # {} => Wants(t) = "none"
  /\ \A t \in Threads : Blocked(t) => ~Blocked(HolderOf(Wants(t)))
  /\ \A t \in Fetchers : pc[t] = "advance" <=> api_key_lock = t
  /\ pc["main"] = "read_bottom" <=> (\E l \in LinesOf(stops) : prediction_time_locks[l] = "main")
  /\ pc["main"] = "alert_bottom" <=> alert_data_lock = "main"

\* The holder of a lock releases it by its next step.
C12_ReleasedByNextStep ==
  [][\A t \in Threads : \A k \in Held(t) : pc'[t] # pc[t] => HolderOf(k)' = "free"]_vars

\* C12: the lock protocol is deadlock-free: no thread waits for a lock while
\* it holds another, so no two threads wait for each other, and every
\* acquired lock is released by the next step of its holder.
C12_DeadlockFree == []C12_NoHoldAndWait /\ C12_ReleasedByNextStep

\* The render thread holds a row lock while a worker waits for it and the
\* alerts thread holds the key lock while the other worker waits for that.
C12_Witness ==
  /\ Blocked("w2")
  /\ HolderOf(Wants("w2")) = "main"
  /\ Blocked("w1")
  /\ HolderOf(Wants("w1")) = "alerts"

\* The data is stale at the last reading of the clock.
StaleNow == IsStale(SecsLastUpdated(now, prediction_data_last_updated))
Shaking == train_pos \in {TrainShakePos, TrainShakeAlt}
\* A worker of the running cycle has not returned from fetch_internal.
Retrying == \E w \in Spawned : pc[w] = "fetch"
\* The render loop has a marker move ahead of it.
MoveAhead == frames + TrainSlowdownFactor <= limits.frames

\* While a fetch is retrying no freshness stamp is written.
C13_NoStampWhileRetrying ==
  [][Retrying => prediction_data_last_updated' = prediction_data_last_updated]_vars

\* Once shaking on stale data the marker stays in the shake until a new stamp.
C13_StaysShaking ==
  [][(Shaking /\ StaleNow /\ prediction_data_last_updated' = prediction_data_last_updated)
        => Shaking']_vars

\* C13: while a per-stop fetch keeps failing no freshness stamp is written;
\* once the clock is staleThresholdSeconds past the last stamp the render
\* loop, as long as it keeps ticking, puts the marker into the two-position
\* shake, and it stays there until a new stamp is written.
C13_StaleSignal ==
  /\ C13_NoStampWhileRetrying
  /\ C13_StaysShaking
  /\ (StaleNow /\ MoveAhead) ~> (Shaking \/ ~StaleNow)

\* The first stop's fetch has failed MaxOutages times and is still retrying,
\* the data has gone stale and the marker has flipped inside the shake.
C13_Witness ==
  /\ pc["w1"] = "fetch"
  /\ Len(sleeps["w1"]) = MaxOutages
  /\ pc["predictions"] = "join"
  /\ StaleNow
  /\ train_pos = TrainShakeAlt

\* What the alerts answer with four alerts has to give at time t: the alert
\* for the first stop is active throughout, the expired one and the ignored
\* one never show, and the alert for both stops shows at Epoch (the end of its
\* first period), not at Epoch + 1, from Epoch + 2 (the start of its second
\* period) to Epoch + 4 (its end), and not after that; on the first stop it
\* comes second, as in the answer.
BothStopsAlertShows(t) == t <= Epoch \/ (Epoch + 2 <= t /\ t <= Epoch + 4)
ExpectedAlerts(line, t) ==
  IF line = "N"
    THEN IF BothStopsAlertShows(t) THEN << <<"A">>, <<"C", "D">> >> ELSE << <<"A">> >>
    ELSE IF BothStopsAlertShows(t) THEN << <<"C", "D">> >> ELSE << >>

\* C14: the alerts stored by fetch_alerts for a line are those whose active
\* period contains the time of the filter, both ends included, and whose
\* informed stops contain the line's stop code, in the order of the answer.
\* (The time of the filter lies between the clock readings before and after
\* the step; the answer with alerts is the one that stores the first stop's.)
C14_AlertFilterInclusive ==
  [][(pc["alerts"] = "fetch" /\ pc'["alerts"] = "sleep" /\ alerts'["N"] # << >>)
        => \E t \in now..now' :
             \A l \in LinesOf(stops) : alerts'[l] = ExpectedAlerts(l, t)]_vars

\* Two cycles at one reading of the clock each: the alert for both stops was
\* dropped one second after the end of its first period and kept at the
\* start of its second.
C14_Witness ==
  /\ stamps["alerts"] = 2
  /\ Len(stops) = 2
  /\ alert_data_last_updated = Epoch + 2
  /\ alerts = [l \in LinesOf(stops) |-> ExpectedAlerts(l, Epoch + 2)]
  /\ written["alerts"]["J"] = {<< >>, << <<"C", "D">> >>}

\* minutes_until: 0 for an arrival that is not after now, the whole minutes
\* until it otherwise.
MinutesUntil(t, arrival) == IF arrival <= t THEN 0 ELSE (arrival - t) \div 60
\* The string for a sequence of arrival times read at time t.
DisplayOf(times, t) ==
  IF times = << >> THEN <<"N", "/", "A">>
  ELSE LET n == IF Len(times) <= 3 THEN Len(times) ELSE 3
       IN  Join(<<",">>, [i \in 1..n |-> IntToStr(MinutesUntil(t, times[i]))])

\* C15: the prediction string is "N/A" for an empty sequence, otherwise the
\* comma-joined minutes until the first three arrivals, 0 for an arrival that
\* is not after now; the arrivals 125, 305, 650 (and 900) seconds after now
\* give "2,5,10".
C15_DisplayString ==
  /\ pc["main"] = "read_bottom" =>
       /\ strs.top = DisplayOf(seen.top, now)
       /\ (seen.top # << >> /\ now = Epoch)
            => strs.top = <<"2", ",", "5", ",", "1", "0">>
       /\ \A i \in 1..Len(strs.top) : strs.top[i] # "-"
  /\ pc["main"] = "alerts" =>
       /\ strs.bottom = DisplayOf(seen.bottom, now)
       /\ \A i \in 1..Len(strs.bottom) : strs.bottom[i] # "-"

\* The top row was formatted at the startup reading and the bottom row after
\* the first arrival had passed.
C15_Witness ==
  /\ pc["main"] = "alerts"
  /\ seen.top = FirstTimes
  /\ strs.top = <<"2", ",", "5", ",", "1", "0">>
  /\ seen.bottom = FirstTimes
  /\ strs.bottom = <<"0", ",", "2", ",", "8">>

\* C16: the train marker position stays in [0, screenWidth + markerLength),
\* that is below 64 + 5 = 69, and an advancing move wraps modulo
\* screenWidth + markerLength.
C16_TrainPosBelowColsPlusLength ==
  /\ 0 <= train_pos
  /\ train_pos < Cols + TrainLength

Rows == {"top", "bottom"}
OffsetOf(r) == IF r = "top" THEN top_text_scroll_offset ELSE bottom_text_scroll_offset

\* C17 as stated: at every render tick each row's scroll offset, the one its
\* alert text is drawn at, lies in [-textPixelWidth, screenWidth] for the
\* text drawn on the row in that tick, also when a fetch cycle has replaced
\* the text between two ticks.
C17_DrawnOffsetInRange ==
  \A r \in Rows :
     canvas[r].kind = "alert" =>
        /\ -PixelLength(canvas[r].text) <= canvas[r].x - DataTextX
        /\ canvas[r].x - DataTextX <= Cols

\* C17 amended: the offset a render tick leaves in a row lies in
\* [-textPixelWidth, screenWidth] for the alert text the tick drew on the
\* row, and is screenWidth when the tick drew the prediction text.
C17_StoredOffsetInRange ==
  \A r \in Rows :
     /\ canvas[r].kind = "alert" =>
           /\ -PixelLength(canvas[r].text) <= OffsetOf(r)
           /\ OffsetOf(r) <= Cols
     /\ canvas[r].kind = "predictions" => OffsetOf(r) = Cols

\* A tick has drawn a text that replaced a longer one at an offset the longer
\* one had reached, left of the shorter text's range, and has reset the offset.
C17_Witness ==
  /\ canvas.top.kind = "alert"
  /\ canvas.top.x - DataTextX < -PixelLength(canvas.top.text)
  /\ top_text_scroll_offset = Cols

\* The store locks a thread holds.
StoreLocksOf(t) ==
  {l \in DOMAIN prediction_time_locks : prediction_time_locks[l] = t}
    \cup (IF alert_data_lock = t THEN {"alert_data_lock"} ELSE {})

\* The render loop holds a store lock only between the two reads of a with
\* block, and no polling thread holds one in any state it can wait in.
C18_LocksOnlyWhileCopying ==
  /\ StoreLocksOf("main") \subseteq
       (IF pc["main"] = "read_bottom" THEN {HeldLine}
        ELSE IF pc["main"] = "alert_bottom" THEN {"alert_data_lock"} ELSE {})
  /\ \A t \in Threads \ {"main"} : StoreLocksOf(t) = {}

\* A tick the render loop can begin reaches its draw, and a draw reaches the
\* head of the loop again, whatever the polling threads do or fail to do.
C18_TickCompletes ==
  /\ (pc["main"] = "frame" /\ frames < limits.frames) ~> (pc["main"] = "draw")
  /\ (pc["main"] = "draw") ~> (pc["main"] = "frame")

\* C18: the render loop holds a store lock only while it copies values out,
\* never across a draw or frame swap, and no polling thread holds a store
\* lock while it waits on the network, sleeps in backoff or sleeps between
\* cycles; hence the render loop goes on completing ticks while a fetch is in
\* flight or retrying.
C18_RenderDecoupled == []C18_LocksOnlyWhileCopying /\ C18_TickCompletes

\* The render loop has completed all its frames while the first stop's fetch
\* has failed MaxOutages times and has still not returned.
C18_Witness ==
  /\ pc["w1"] = "fetch"
  /\ Len(sleeps["w1"]) = MaxOutages
  /\ pc["main"] = "frame"
  /\ frames = limits.frames
  /\ limits.frames > MaxFrames

AlertField(r) == IF r = "top" THEN "top_alert" ELSE "bottom_alert"
OtherRow(r) == IF r = "top" THEN "bottom" ELSE "top"
\* The step of the render loop that draws a frame.
Tick == pc["main"] = "draw" /\ pc'["main"] = "frame"

\* C19: in every render tick and for each row, a non-empty alert text is
\* drawn, scrolling, instead of the prediction text; with an empty alert text
\* the prediction text is drawn at baseX and the row's offset is reset to
\* screenWidth, so the first tick that has an alert again draws it at
\* baseX + screenWidth; the other row goes on scrolling from its own offset.
C19_AlertPriorityAndReset ==
  [][Tick =>
       \A r \in Rows :
          LET a == strs[AlertField(r)]
              b == strs[AlertField(OtherRow(r))]
          IN  /\ a # Empty =>
                    /\ canvas'[r].kind = "alert"
                    /\ canvas'[r].text = a
              /\ a = Empty =>
                    /\ canvas'[r] = [x |-> DataTextX, text |-> strs[r], kind |-> "predictions"]
                    /\ OffsetOf(r)' = Cols
              /\ (a # Empty /\ canvas[r].kind = "predictions") =>
                    canvas'[r].x = DataTextX + Cols
              /\ (a = Empty /\ b # Empty /\ OffsetOf(OtherRow(r)) > -PixelLength(b)) =>
                    OffsetOf(OtherRow(r))' = OffsetOf(OtherRow(r)) - 1]_vars

\* The third frame draws the bottom row's alert at baseX + screenWidth after
\* a frame that drew its prediction text, while the top row's alert has
\* scrolled on through all three frames.
C19_Witness ==
  /\ frames = 3
  /\ stamps["alerts"] = 3
  /\ canvas.bottom.kind = "alert"
  /\ canvas.bottom.x = DataTextX + Cols
  /\ bottom_text_scroll_offset = Cols - 1
  /\ canvas.top.kind = "alert"
  /\ canvas.top.x = DataTextX + Cols - 2

\* Between its two reads the render loop holds the alert lock, and the alerts
\* it read for the top row are still the stored ones.
C20_ReadUnderOneLock ==
  pc["main"] = "alert_bottom" =>
     /\ alert_data_lock = "main"
     /\ seen.top_alert = alerts[stops[1].line]

\* When the second read is done both rows hold what one stored value of
\* self.alerts has for their lines.
C20_BothRowsFromStored ==
  [][(pc["main"] = "alert_bottom" /\ pc'["main"] = "draw") =>
        /\ seen'.top_alert = alerts[stops[1].line]
        /\ seen'.bottom_alert = alerts[stops[2].line]
        /\ alerts' = alerts]_vars

\* The alerts and their stamp change only together, in the one step of
\* fetch_alerts that holds the lock, and the new alerts of all lines are the
\* filter of one answer at one reading of the clock.
C20_ReplacedTogether ==
  [][(alerts' # alerts \/ alert_data_last_updated' # alert_data_last_updated
        \/ stamps'["alerts"] # stamps["alerts"]) =>
        /\ pc["alerts"] = "fetch" /\ pc'["alerts"] = "sleep"
        /\ alert_data_lock = "free"
        /\ stamps'["alerts"] = stamps["alerts"] + 1
        /\ alert_data_last_updated' = now'
        /\ \E raw \in AlertPayloads, t \in now..now' :
              alerts' = AlertFilter(raw, stops, t)]_vars

\* C20: the alert lists of all lines and the alerts stamp are replaced
\* together in one critical section of alert_data_lock and the render loop
\* reads both rows in one critical section of the same lock, so the two
\* alert strings of a tick come from the same fetch cycle and the stamp
\* belongs to the stored alerts.
C20_AlertsOfOneCycle ==
  /\ []C20_ReadUnderOneLock
  /\ C20_BothRowsFromStored
  /\ C20_ReplacedTogether

\* The render loop has read both rows from the second cycle's alerts (the
\* first stop's alert alone), and the third cycle has replaced them since.
C20_Witness ==
  /\ pc["main"] = "draw"
  /\ seen.top_alert = << <<"A">> >>
  /\ seen.bottom_alert = << >>
  /\ stamps["alerts"] = 3
  /\ alerts # [l \in LinesOf(stops) |-> IF l = stops[1].line THEN << <<"A">> >> ELSE << >>]
====
